---- MODULE Spec2Model ----
(***************************************************************************)
(* Orbital rendering engine: the compass-quadrant frame map                *)
(* (core/QuadrantFrameMap.ts), the frame selection of the fragment shader  *)
(* (core/shaders/OrbitalShaderModules.ts), the visualizer that feeds it    *)
(* (core/ProductOrbitVisualizer.ts), the pointer bridge that drives the    *)
(* visualizer (OrbitalInputBridge, core/quaternion.ts) and the component   *)
(* that loads the atlases and wires them up (ui/orbital/OrbitalMode.tsx).  *)
(*                                                                         *)
(* Units.  Angles in degrees are integers counting quarter degrees, so     *)
(* that 22.5, 11.25 and 348.75 degrees are exact (90, 45 and 1395).  On    *)
(* this grid every value the TypeScript code computes before the division  *)
(* by 22.5 is exact in IEEE doubles as well.  A blend factor is kept as    *)
(* its numerator over DEGREES_PER_FRAME: blend 0.5 is the numerator 45.    *)
(***************************************************************************)
EXTENDS Integers, Sequences, FiniteSets, TLC

VARIABLES
    \* ---- frame map probe: one call of each pure function on one input
    yawDegrees,     \* the yaw handed to the frame map functions (quarter degrees)
    blendFrames,    \* what getBlendFrames(yawDegrees) returned, or NoResult
    compass,        \* what getCompassDirection(yawDegrees) returned, or NoLabel
    shaderFrames,   \* frameA/frameB/interp the fragment shader selected, or NoResult
    \* ---- ProductOrbitVisualizer instance
    gl,             \* "WebGL2" | "WebGL1" | "none"   (this.gl / this.webglVersion)
    program,        \* TRUE iff this.program is non-null
    buffer,         \* TRUE iff this.buffer is non-null
    uniforms,       \* TRUE iff this.uniforms is non-null
    supported,      \* this.supported
    currentYaw,     \* this.currentYaw, in 1/10000 rad
    currentPitch,   \* this.currentPitch, in 1/1000 degree
    velocity,       \* this.velocity, in 1/1000
    renderMode,     \* this.renderMode
    uploaded,       \* the uniform values of the last draw call, or NoResult
    canvasSize,     \* <<canvas.width, canvas.height>>, the viewport of the context
    lastCall,       \* the method or event handler that ran last, with its argument
    calls,          \* number of updateFromRotor calls so far
    \* ---- OrbitalInputBridge instance
    dragging,       \* this.dragging
    bridgeYaw,      \* this.yaw of the bridge, in 1/1000000 rad
    bridgePitch,    \* this.pitch of the bridge, in 1/1000 degree
    bridgeVelocity, \* this.velocity of the bridge, in 1/1000000 rad per second
    lastPointerX,   \* this.lastPointerX, in pixels
    lastPointerY,   \* this.lastPointerY, in pixels
    moves,          \* number of pointer moves handled so far (bounded)
    listening,      \* the four pointer listeners of attach() are registered
    animateScheduled, \* a requestAnimationFrame(this.animate) is pending (frameId)
    detached,       \* detach() has been called and has returned
    \* ---- OrbitalMode component
    mounted,        \* the component is mounted
    debugMode,      \* React state debugMode
    isReady,        \* React state isReady
    webglError,     \* TRUE iff React state webglError is a message
    uiRenderMode,   \* React state renderMode, the label of the mode button
    setups,         \* one record per run of the setup effect, in order
    visualizerRef,  \* visualizerRef.current: the setup that made it, 0 for null
    bridgeRef,      \* bridgeRef.current: the setup that made it, 0 for null
    frameRef        \* frameRef.current: the setup whose frame is pending, 0 for null

frameMapVars == <<yawDegrees, blendFrames, compass, shaderFrames>>
visualizerVars == <<gl, program, buffer, uniforms, supported, currentYaw,
                    currentPitch, velocity, renderMode, uploaded, canvasSize,
                    lastCall, calls>>
bridgeVars == <<dragging, bridgeYaw, bridgePitch, bridgeVelocity, lastPointerX,
                lastPointerY, moves, listening, animateScheduled, detached>>
componentVars == <<mounted, debugMode, isReady, webglError, uiRenderMode, setups,
                   visualizerRef, bridgeRef, frameRef>>
vars == <<yawDegrees, blendFrames, compass, shaderFrames, gl, program, buffer,
          uniforms, supported, currentYaw, currentPitch, velocity, renderMode,
          uploaded, canvasSize, lastCall, calls, dragging, bridgeYaw, bridgePitch,
          bridgeVelocity, lastPointerX, lastPointerY, moves, mounted, debugMode, isReady, webglError,
          listening, animateScheduled, detached, uiRenderMode,
          setups, visualizerRef, bridgeRef, frameRef>>

\* "not called yet": for a record-valued result and for a label
NoResult == [returned |-> FALSE]
NoLabel == "none"

(***************************************************************************)
(* Bounds of the model.                                                    *)
(***************************************************************************)
\* yaw inputs of the frame map range over -MaxYaw..MaxYaw quarter degrees
\* (a little more than two full turns either way)
MaxYaw == 2970
\* periods added to a yaw when periodicity is compared
MaxTurns == 2
\* updateFromRotor calls in one behaviour
MaxCalls == 2
\* pointer moves one bridge handles
MaxMoves == 2
\* runs of the setup effect of one OrbitalMode component
MaxSetups == 2

(***************************************************************************)
(* Arithmetic of the source language.                                      *)
(***************************************************************************)
\* d degrees in quarter degrees
Deg(d) == 4 * d

\* JavaScript's % : the remainder takes the sign of the dividend
JsRem(a, n) == IF a >= 0 THEN a % n ELSE -((-a) % n)

\* GLSL's mod(x, y) = x - y * floor(x / y): never negative for y > 0
GlslMod(x, y) == x - y * (x \div y)

Min(a, b) == IF a < b THEN a ELSE b
Max(a, b) == IF a > b THEN a ELSE b

(***************************************************************************)
(* core/QuadrantFrameMap.ts                                                *)
(***************************************************************************)
\* element i (0-based, as in the source) of a tuple
At(table, i) == table[i + 1]

QUADRANT_GRID ==
    << [direction |-> "N",   angle |-> Deg(0),                gridRow |-> 0, gridCol |-> 0, frameIndex |-> 0],
       [direction |-> "E",   angle |-> Deg(90),               gridRow |-> 0, gridCol |-> 1, frameIndex |-> 1],
       [direction |-> "S",   angle |-> Deg(180),              gridRow |-> 0, gridCol |-> 2, frameIndex |-> 2],
       [direction |-> "W",   angle |-> Deg(270),              gridRow |-> 0, gridCol |-> 3, frameIndex |-> 3],
       [direction |-> "NE",  angle |-> Deg(45),               gridRow |-> 1, gridCol |-> 0, frameIndex |-> 4],
       [direction |-> "SE",  angle |-> Deg(135),              gridRow |-> 1, gridCol |-> 1, frameIndex |-> 5],
       [direction |-> "SW",  angle |-> Deg(225),              gridRow |-> 1, gridCol |-> 2, frameIndex |-> 6],
       [direction |-> "NW",  angle |-> Deg(315),              gridRow |-> 1, gridCol |-> 3, frameIndex |-> 7],
       [direction |-> "NNE", angle |-> Deg(45) \div 2,        gridRow |-> 2, gridCol |-> 0, frameIndex |-> 8],
       [direction |-> "ESE", angle |-> Deg(225) \div 2,       gridRow |-> 2, gridCol |-> 1, frameIndex |-> 9],
       [direction |-> "SSW", angle |-> Deg(405) \div 2,       gridRow |-> 2, gridCol |-> 2, frameIndex |-> 10],
       [direction |-> "WNW", angle |-> Deg(585) \div 2,       gridRow |-> 2, gridCol |-> 3, frameIndex |-> 11],
       [direction |-> "ENE", angle |-> Deg(135) \div 2,       gridRow |-> 3, gridCol |-> 0, frameIndex |-> 12],
       [direction |-> "SSE", angle |-> Deg(315) \div 2,       gridRow |-> 3, gridCol |-> 1, frameIndex |-> 13],
       [direction |-> "WSW", angle |-> Deg(495) \div 2,       gridRow |-> 3, gridCol |-> 2, frameIndex |-> 14],
       [direction |-> "NNW", angle |-> Deg(675) \div 2,       gridRow |-> 3, gridCol |-> 3, frameIndex |-> 15] >>

\* a sequence with one entry repeated (5 typed in the slot of 9)
ANGULAR_SEQUENCE_Duplicate ==
    << 0, 8, 4, 12, 1, 5, 5, 13, 2, 10, 6, 14, 3, 11, 7, 15 >>

\* the sequence of the other grid layout (the one the fragment shader carries)
ANGULAR_SEQUENCE_OtherLayout ==
    << 0, 9, 5, 13, 2, 14, 6, 10, 1, 11, 7, 15, 3, 12, 4, 8 >>

ANGULAR_SEQUENCE ==
    << 0, 8, 4, 12, 1, 9, 5, 13, 2, 10, 6, 14, 3, 11, 7, 15 >>

\* new Array(16) filled by forEach: result[frameIdx] = angleIdx.  A slot no
\* entry names stays undefined; a slot named twice keeps the last write.
Undefined == -1
FRAME_TO_ANGLE_INDEX ==
    [f \in 0..15 |->
        LET writers == {i \in 0..(Len(ANGULAR_SEQUENCE) - 1) : At(ANGULAR_SEQUENCE, i) = f}
        IN  IF writers = {} THEN Undefined
            ELSE CHOOSE i \in writers : \A j \in writers : j <= i]

ANGULAR_LABELS ==
    << "N", "NNE", "NE", "ENE", "E", "ESE", "SE", "SSE",
       "S", "SSW", "SW", "WSW", "W", "WNW", "NW", "NNW" >>

\* 360 and 22.5 degrees (DEGREES_PER_FRAME) in quarter degrees
FullCircle == Deg(360)
DEGREES_PER_FRAME == Deg(45) \div 2

\* the normalisation without the "+ 360" repair of negative remainders
NormalizeYaw_NoRepair(y) == JsRem(y, FullCircle)

\* the normalisation as (yawDegrees + 360) % 360: one turn of repair only
NormalizeYaw_OneTurn(y) == JsRem(y + FullCircle, FullCircle)

\* ((yawDegrees % 360) + 360) % 360
NormalizeYaw(y) == JsRem(JsRem(y, FullCircle) + FullCircle, FullCircle)

\* a table lookup as JavaScript does it: out of range reads undefined
Lookup(table, i) == IF i \in 0..(Len(table) - 1) THEN At(table, i) ELSE Undefined

\* getBlendFrames with angleIndexB = angleIndexA + 1, the wrap "% 16" left out
getBlendFrames_NoWrap(y) ==
    LET yaw         == NormalizeYaw(y)
        floorAngle  == yaw \div DEGREES_PER_FRAME
        angleIndexA == JsRem(floorAngle, 16)
        angleIndexB == angleIndexA + 1
    IN  [ frameA      |-> Lookup(ANGULAR_SEQUENCE, angleIndexA),
          frameB      |-> Lookup(ANGULAR_SEQUENCE, angleIndexB),
          blend       |-> yaw - floorAngle * DEGREES_PER_FRAME,
          angleIndexA |-> angleIndexA,
          angleIndexB |-> angleIndexB ]

getBlendFrames(y) ==
    LET yaw         == NormalizeYaw(y)
        floorAngle  == yaw \div DEGREES_PER_FRAME          \* Math.floor(yaw / 22.5)
        angleIndexA == JsRem(floorAngle, 16)
        angleIndexB == JsRem(angleIndexA + 1, 16)
    IN  [ frameA      |-> Lookup(ANGULAR_SEQUENCE, angleIndexA),
          frameB      |-> Lookup(ANGULAR_SEQUENCE, angleIndexB),
          \* angleFloat - Math.floor(angleFloat), as a numerator over DEGREES_PER_FRAME
          blend       |-> yaw - floorAngle * DEGREES_PER_FRAME,
          angleIndexA |-> angleIndexA,
          angleIndexB |-> angleIndexB ]

\* Math.floor in the place of Math.round
RoundSteps_Floor(yaw) == yaw \div DEGREES_PER_FRAME

\* rounding to the nearest step with a half rounding down
RoundSteps_HalfDown(yaw) == (2 * yaw + DEGREES_PER_FRAME - 1) \div (2 * DEGREES_PER_FRAME)

\* Math.round(x / 22.5): the nearest integer, a half rounding up
RoundSteps(yaw) == (2 * yaw + DEGREES_PER_FRAME) \div (2 * DEGREES_PER_FRAME)

getCompassDirection(y) ==
    LET yaw        == NormalizeYaw(y)
        angleIndex == JsRem(RoundSteps(yaw), 16)
    IN  Lookup(ANGULAR_LABELS, angleIndex)

frameToGridPosition(frameIndex) ==
    [col |-> frameIndex % 4, row |-> frameIndex \div 4]

\* QUADRANT_GRID.find(f => f.frameIndex === frameIndex): angle, or 0 if none
frameToAngle(frameIndex) ==
    LET hits == {i \in 1..Len(QUADRANT_GRID) : QUADRANT_GRID[i].frameIndex = frameIndex}
    IN  IF hits = {} THEN 0
        ELSE QUADRANT_GRID[CHOOSE i \in hits : \A j \in hits : i <= j].angle

(***************************************************************************)
(* core/shaders/OrbitalShaderModules.ts: frame selection of the fragment   *)
(* shader.  yawDeg is the value of the local yawDeg after the conversion   *)
(* from radians (quarter degrees here); u_renderMode is 0 or 1.            *)
(***************************************************************************)
getOrbitalFrame(angleIndex) ==
    LET idx == GlslMod(angleIndex, 16)
    IN  CASE idx = 0  -> 0
          [] idx = 1  -> 9
          [] idx = 2  -> 5
          [] idx = 3  -> 13
          [] idx = 4  -> 2
          [] idx = 5  -> 14
          [] idx = 6  -> 6
          [] idx = 7  -> 10
          [] idx = 8  -> 1
          [] idx = 9  -> 11
          [] idx = 10 -> 7
          [] idx = 11 -> 15
          [] idx = 12 -> 3
          [] idx = 13 -> 12
          [] idx = 14 -> 4
          [] OTHER    -> 8

\* the turnstile lookup reading the 16-entry orbital table at the same index
getTurnstileFrame_OrbitalTable(angleIndex) ==
    getOrbitalFrame(GlslMod(angleIndex, 8))

getTurnstileFrame(angleIndex) ==
    LET idx == GlslMod(angleIndex, 8)
    IN  CASE idx = 0 -> 0
          [] idx = 1 -> 5
          [] idx = 2 -> 2
          [] idx = 3 -> 6
          [] idx = 4 -> 1
          [] idx = 5 -> 7
          [] idx = 6 -> 3
          [] OTHER   -> 4

\* main(), lines 127-153: the two frames and the interpolation factor
\* (interp is a numerator over degreesPerFrame)
mainFrames(yawDeg, u_renderMode) ==
    LET m      == GlslMod(yawDeg, FullCircle)
        yawN   == IF m < 0 THEN m + FullCircle ELSE m
    IN  IF 2 * u_renderMode < 1
        THEN LET angleIndexA == yawN \div DEGREES_PER_FRAME
                 angleIndexB == GlslMod(angleIndexA + 1, 16)
             IN  [ renderMode      |-> "orbital",
                   frameA          |-> getOrbitalFrame(angleIndexA),
                   frameB          |-> getOrbitalFrame(angleIndexB),
                   interp          |-> yawN - angleIndexA * DEGREES_PER_FRAME,
                   degreesPerFrame |-> DEGREES_PER_FRAME ]
        ELSE LET angleIndexA == yawN \div Deg(45)
                 angleIndexB == GlslMod(angleIndexA + 1, 8)
             IN  [ renderMode      |-> "turnstile",
                   frameA          |-> getTurnstileFrame(angleIndexA),
                   frameB          |-> getTurnstileFrame(angleIndexB),
                   interp          |-> yawN - angleIndexA * Deg(45),
                   degreesPerFrame |-> Deg(45) ]

(***************************************************************************)
(* Construction of a ProductOrbitVisualizer (field initialisers and        *)
(* initWebGL) -- the state every specification starts the instance in.     *)
(* The browser decides which context exists, whether the program links    *)
(* and whether createBuffer succeeds.                                      *)
(***************************************************************************)
Contexts == {"WebGL2", "WebGL1", "none"}

initWebGL(context, programLinks, bufferCreated) ==
    /\ gl = context
    /\ program = (context # "none" /\ programLinks)
    /\ supported = (context # "none" /\ programLinks)
    /\ buffer = (context # "none" /\ programLinks /\ bufferCreated)
    /\ uniforms = (context # "none" /\ programLinks /\ bufferCreated)

\* width and height of a canvas element nobody has sized yet
DefaultCanvasSize == <<300, 150>>

Constructed(context, programLinks, bufferCreated) ==
    /\ initWebGL(context, programLinks, bufferCreated)
    /\ currentYaw = 0
    /\ currentPitch = 0
    /\ velocity = 0
    /\ renderMode = "orbital"
    /\ uploaded = NoResult
    /\ canvasSize = DefaultCanvasSize
    /\ lastCall = <<"constructor">>
    /\ calls = 0

(***************************************************************************)
(* Construction of an OrbitalInputBridge (field initialisers, part_009     *)
(* lines 13-20) and the OrbitalMode component before its first render     *)
(* (useRef/useState initial values, OrbitalMode.tsx lines 28-42).          *)
(***************************************************************************)
BridgeConstructed ==
    /\ dragging = FALSE
    /\ bridgeYaw = 0
    /\ bridgePitch = 0
    /\ bridgeVelocity = 0
    /\ lastPointerX = 0
    /\ lastPointerY = 0
    /\ moves = 0
    /\ listening = TRUE
    /\ animateScheduled = TRUE
    /\ detached = FALSE

ComponentInitial ==
    /\ mounted = FALSE
    /\ debugMode = FALSE
    /\ isReady = FALSE
    /\ webglError = FALSE
    /\ uiRenderMode = "orbital"
    /\ setups = << >>
    /\ visualizerRef = 0
    /\ bridgeRef = 0
    /\ frameRef = 0

(***************************************************************************)
(* Frame map specification: one yaw, drawn from the inputs, on which the   *)
(* pure functions of the frame map and the shader's frame selection are    *)
(* called.                                                                 *)
(***************************************************************************)
YawInputs == (-MaxYaw)..MaxYaw

FrameMapInit ==
    /\ yawDegrees \in YawInputs
    /\ blendFrames = NoResult
    /\ compass = NoLabel
    /\ shaderFrames = NoResult
    /\ Constructed("WebGL2", TRUE, TRUE)
    /\ BridgeConstructed
    /\ ComponentInitial

CallGetBlendFrames ==
    /\ blendFrames' = getBlendFrames(yawDegrees)
    /\ UNCHANGED <<yawDegrees, compass, shaderFrames>>
    /\ UNCHANGED <<visualizerVars, bridgeVars, componentVars>>

CallGetCompassDirection ==
    /\ compass' = getCompassDirection(yawDegrees)
    /\ UNCHANGED <<yawDegrees, blendFrames, shaderFrames>>
    /\ UNCHANGED <<visualizerVars, bridgeVars, componentVars>>

\* one fragment of a draw with the yaw uniform at yawDegrees
ShaderMain(u_renderMode) ==
    /\ shaderFrames' = mainFrames(yawDegrees, u_renderMode)
    /\ UNCHANGED <<yawDegrees, blendFrames, compass>>
    /\ UNCHANGED <<visualizerVars, bridgeVars, componentVars>>

FrameMapNext ==
    \/ CallGetBlendFrames
    \/ CallGetCompassDirection
    \/ \E u_renderMode \in {0, 1} : ShaderMain(u_renderMode)

FrameMapSpec == FrameMapInit /\ [][FrameMapNext]_vars

(***************************************************************************)
(* core/quaternion.ts (toAxisAngle) in fixed point.                        *)
(* Quaternion and axis components count 1/1000; angles count 1/1000 rad.   *)
(***************************************************************************)
\* x / y rounded toward zero
DivTrunc(x, y) == IF x >= 0 THEN x \div y ELSE -((-x) \div y)

\* floor of the square root of n, by bisection of lo..hi (lo * lo <= n < (hi + 1)^2)
RECURSIVE SqrtBetween(_, _, _)
SqrtBetween(n, lo, hi) ==
    IF lo >= hi THEN lo
    ELSE LET mid == (lo + hi + 1) \div 2
         IN  IF mid * mid <= n THEN SqrtBetween(n, mid, hi)
                               ELSE SqrtBetween(n, lo, mid - 1)

\* Math.sqrt of n / 1000000, counted in 1/1000, 0 <= n <= 1000000
ISqrt(n) == SqrtBetween(n, 0, 1000)

\* 1000 * acos(w / 1000) rounded, at the values of w the rotors below carry
ACosTable ==
    [w \in {-1000, -800, -600, 0, 600, 800, 1000} |->
        CASE w = 1000  -> 0
          [] w = 800   -> 644
          [] w = 600   -> 927
          [] w = 0     -> 1571
          [] w = -600  -> 2214
          [] w = -800  -> 2498
          [] OTHER     -> 3142]

\* Math.PI in 1/1000 rad
PiMilli == (31416 + 5) \div 10

\* x * x / 1000 for an angle x in 1/1000 rad: the square in 1/1000
Sq(x) == (x * x) \div 1000

\* the Taylor polynomials of sine and cosine on [0, pi/4], in 1/1000
SinSeries(a) ==
    LET q == Sq(a)
    IN  a - (q * a) \div 6000 + (Sq(q) * a) \div 120000
CosSeries(a) ==
    LET q == Sq(a)
    IN  1000 - q \div 2 + Sq(q) \div 24 - (Sq(q) * q) \div 720000

\* sine and cosine on the quarter turn [0, pi/2]
SinQuarter(a) ==
    IF 4 * a <= PiMilli THEN SinSeries(a) ELSE CosSeries(PiMilli \div 2 - a)
CosQuarter(a) ==
    IF 4 * a <= PiMilli THEN CosSeries(a) ELSE SinSeries(PiMilli \div 2 - a)

\* Math.cos and Math.sin of an angle in 1/1000 rad, in 1/1000
Cos(x) ==
    LET r == x % (2 * PiMilli)
        a == IF r > PiMilli THEN 2 * PiMilli - r ELSE r
    IN  IF 2 * a > PiMilli THEN -CosQuarter(PiMilli - a) ELSE CosQuarter(a)
Sin(x) ==
    LET r == x % (2 * PiMilli)
        a == IF r > PiMilli THEN r - PiMilli ELSE r
        s == IF 2 * a > PiMilli THEN SinQuarter(PiMilli - a) ELSE SinQuarter(a)
    IN  IF r > PiMilli THEN -s ELSE s

\* the largest angle of lo..hi whose cosine is at least w (cosine falls on 0..pi)
RECURSIVE ACosBetween(_, _, _)
ACosBetween(w, lo, hi) ==
    IF lo >= hi THEN lo
    ELSE LET mid == (lo + hi + 1) \div 2
         IN  IF Cos(mid) >= w THEN ACosBetween(w, mid, hi)
                              ELSE ACosBetween(w, lo, mid - 1)

\* Math.acos in 1/1000 rad: the tabulated knots, the inverse of Cos elsewhere
ACos(w) == IF w \in DOMAIN ACosTable THEN ACosTable[w] ELSE ACosBetween(w, 0, PiMilli)

toAxisAngle(q) ==
    LET clampedW == Min(1000, Max(-1000, q.w))
        angle    == 2 * ACos(clampedW)
        \* 1 - clampedW^2 counts 1/1000000; "sinHalf < 0.0001" is "below 1/100 of a unit"
        oneMinus == 1000000 - clampedW * clampedW
        sinHalf  == ISqrt(oneMinus)
    IN  IF oneMinus = 0
        THEN [axis |-> <<0, 1000, 0>>, angle |-> 0]
        ELSE [axis |-> << DivTrunc(q.x * 1000, sinHalf),
                          DivTrunc(q.y * 1000, sinHalf),
                          DivTrunc(q.z * 1000, sinHalf) >>,
              angle |-> angle]

(***************************************************************************)
(* core/ProductOrbitVisualizer.ts                                          *)
(* currentYaw counts 1/10000 rad, currentPitch 1/1000 degree, velocity     *)
(* 1/1000, dt milliseconds.                                                *)
(***************************************************************************)
\* fromYawPitch: yaw in 1/1000000 rad, pitch in 1/1000 rad
fromYawPitch(yaw, pitch) ==
    LET halfYaw   == DivTrunc(yaw, 2000)
        halfPitch == DivTrunc(pitch, 2)
        cy == Cos(halfYaw)
        sy == Sin(halfYaw)
        cx == Cos(halfPitch)
        sx == Sin(halfPitch)
    IN  [ w |-> DivTrunc(cy * cx, 1000),
          x |-> DivTrunc(sx * cy, 1000),
          y |-> DivTrunc(sy * cx, 1000),
          z |-> DivTrunc(-(sy * sx), 1000) ]

RenderModes == {"orbital", "turnstile"}

\* Math.PI * 2 in 1/10000 rad
FullTurn == 62832

\* setRenderMode that only stores the mode
setRenderMode_NoReset(mode) ==
    /\ renderMode' = mode
    /\ currentPitch' = currentPitch

setRenderMode(mode) ==
    /\ renderMode' = mode
    /\ currentPitch' = IF mode = "turnstile" THEN 0 ELSE currentPitch

SetRenderMode(mode) ==
    /\ setRenderMode(mode)
    /\ lastCall' = <<"setRenderMode", mode>>
    /\ UNCHANGED <<gl, program, buffer, uniforms, supported, currentYaw, velocity,
                   uploaded, canvasSize, calls>>
    /\ UNCHANGED <<frameMapVars, bridgeVars, componentVars>>

\* the pitch after an update that integrates pitch in either render mode
nextPitch_AnyMode(xEnergy) ==
    Max(0, Min(30000, currentPitch + xEnergy * 5))

\* lines 189-196
nextPitch(xEnergy) ==
    IF renderMode = "orbital"
    THEN Max(0, Min(30000, currentPitch + xEnergy * 5))
    ELSE 0

\* the wrap as currentYaw % fullTurn alone
wrapYaw_NoRepair(yawSum) == JsRem(yawSum, FullTurn)

\* line 187: ((currentYaw % fullTurn) + fullTurn) % fullTurn
wrapYaw(yawSum) == JsRem(JsRem(yawSum, FullTurn) + FullTurn, FullTurn)

\* the smoothing without the clamp of line 204
nextVelocity_NoClamp(yEnergy, dt) ==
    LET instantaneous == IF dt > 0 THEN DivTrunc(yEnergy * 1000, dt) ELSE yEnergy
    IN  DivTrunc(velocity * 9 + instantaneous, 10)

\* lines 199-204: velocity * 0.9 + instantaneous * 0.1, clamped to [-3, 3]
nextVelocity(yEnergy, dt) ==
    LET instantaneous == IF dt > 0 THEN DivTrunc(yEnergy * 1000, dt) ELSE yEnergy
        smoothed      == DivTrunc(velocity * 9 + instantaneous, 10)
    IN  Max(-3000, Min(3000, smoothed))

updateFromRotor(quaternion, dt) ==
    LET aa            == toAxisAngle(quaternion)
        yEnergy       == DivTrunc(aa.axis[2] * aa.angle, 1000)
        xEnergy       == DivTrunc(aa.axis[1] * aa.angle, 1000)
        yawSum        == currentYaw + yEnergy              \* += yEnergy * 0.1
    IN  /\ currentYaw' = wrapYaw(yawSum)
        /\ currentPitch' = nextPitch(xEnergy)
        /\ velocity' = nextVelocity(yEnergy, dt)

\* the rotations and time steps a caller hands in
Rotors ==
    { [x |-> 0,    y |-> 0,    z |-> 0, w |-> 1000],    \* identity
      [x |-> 0,    y |-> 600,  z |-> 0, w |-> 800],     \* about y
      [x |-> 0,    y |-> -600, z |-> 0, w |-> 800],
      [x |-> 600,  y |-> 0,    z |-> 0, w |-> 800],     \* about x
      [x |-> -600, y |-> 0,    z |-> 0, w |-> 800],
      [x |-> 480,  y |-> 640,  z |-> 0, w |-> 600],     \* about x and y
      [x |-> 1000, y |-> 0,    z |-> 0, w |-> 0],       \* half turn about x
      [x |-> 0,    y |-> 2000, z |-> 0, w |-> 1500] }   \* not normalised, w > 1

TimeSteps == {-16, 0, 16}

UpdateFromRotor(quaternion, dt) ==
    /\ calls < MaxCalls
    /\ updateFromRotor(quaternion, dt)
    /\ calls' = calls + 1
    /\ lastCall' = <<"updateFromRotor">>
    /\ UNCHANGED <<gl, program, buffer, uniforms, supported, renderMode, uploaded,
                   canvasSize>>
    /\ UNCHANGED <<frameMapVars, bridgeVars, componentVars>>

\* the uniforms render() uploads in the current state
Uniforms ==
    [ yaw        |-> currentYaw,
      pitch      |-> currentPitch,
      velocity   |-> Max(-3000, Min(3000, velocity)),
      warp       |-> 0,
      renderMode |-> IF renderMode = "orbital" THEN 0 ELSE 1 ]

\* render() without the early return of lines 208-210
render_NoGuard ==
    /\ uploaded' = Uniforms
    /\ UNCHANGED <<currentYaw, currentPitch, velocity, renderMode>>

\* render() that also decays the velocity it has just drawn
render_Decay ==
    /\ uploaded' = IF gl = "none" \/ ~program \/ ~buffer \/ ~uniforms
                   THEN uploaded ELSE Uniforms
    /\ velocity' = DivTrunc(velocity * 9, 10)
    /\ UNCHANGED <<currentYaw, currentPitch, renderMode>>

render ==
    /\ IF gl = "none" \/ ~program \/ ~buffer \/ ~uniforms
       THEN uploaded' = uploaded
       ELSE uploaded' = Uniforms
    /\ UNCHANGED <<currentYaw, currentPitch, velocity, renderMode>>

Render ==
    /\ render
    /\ lastCall' = <<"render">>
    /\ UNCHANGED <<gl, program, buffer, uniforms, supported, canvasSize, calls>>
    /\ UNCHANGED <<frameMapVars, bridgeVars, componentVars>>

\* the sizes a caller hands to setSize
CanvasSizes == {<<300, 150>>, <<640, 480>>}

setSize(width, height) ==
    IF gl = "none"
    THEN canvasSize' = canvasSize
    ELSE canvasSize' = <<width, height>>

SetSize(width, height) ==
    /\ setSize(width, height)
    /\ lastCall' = <<"setSize">>
    /\ UNCHANGED <<gl, program, buffer, uniforms, supported, currentYaw, currentPitch,
                   velocity, renderMode, uploaded, calls>>
    /\ UNCHANGED <<frameMapVars, bridgeVars, componentVars>>

\* Math.PI in 1/10000 rad
Pi == 31416

\* (currentYaw * 180) / Math.PI, in quarter degrees (rounded down to the grid)
YawDeg == (currentYaw * Deg(180)) \div Pi

\* what getDebugInfo() returns in the current state (texture sizes left out)
getDebugInfo ==
    LET bf == getBlendFrames(YawDeg)
    IN  [ yawRad           |-> currentYaw,
          yawDeg           |-> YawDeg,
          pitch            |-> currentPitch,
          velocity         |-> velocity,
          warpFactor       |-> 0,
          frameA           |-> bf.frameA,
          frameB           |-> bf.frameB,
          blendFactor      |-> bf.blend,
          compassDirection |-> getCompassDirection(YawDeg),
          webglVersion     |-> gl,
          renderMode       |-> renderMode ]

\* a call of getDebugInfo(): it reads, and writes nothing
GetDebugInfo ==
    /\ lastCall' = <<"getDebugInfo">>
    /\ UNCHANGED <<gl, program, buffer, uniforms, supported, currentYaw, currentPitch,
                   velocity, renderMode, uploaded, canvasSize, calls>>
    /\ UNCHANGED <<frameMapVars, bridgeVars, componentVars>>

Init ==
    /\ \E context \in Contexts, programLinks \in BOOLEAN, bufferCreated \in BOOLEAN :
          Constructed(context, programLinks, bufferCreated)
    /\ yawDegrees = 0
    /\ blendFrames = NoResult
    /\ compass = NoLabel
    /\ shaderFrames = NoResult
    /\ BridgeConstructed
    /\ ComponentInitial

Next ==
    \/ \E mode \in RenderModes : SetRenderMode(mode)
    \/ \E quaternion \in Rotors, dt \in TimeSteps : UpdateFromRotor(quaternion, dt)
    \/ Render
    \/ \E size \in CanvasSizes : SetSize(size[1], size[2])
    \/ GetDebugInfo

Spec == Init /\ [][Next]_vars

(***************************************************************************)
(* OrbitalInputBridge (part_009 lines 1-122) wired to the visualizer as    *)
(* OrbitalMode.tsx does: every update the bridge emits goes to             *)
(* updateFromRotor, the mode button goes to setRenderMode, the frame loop  *)
(* calls render.  Bridge yaw counts 1/1000000 rad, its velocity 1/1000000  *)
(* rad per second, its pitch 1/1000 degree, times are milliseconds; the    *)
(* time since the last handler ran (now - this.lastTime) is an input.      *)
(***************************************************************************)
\* yawSensitivity 0.006 rad per pixel, pitchSensitivity 0.15 degree per pixel
yawSensitivity == 6000
pitchSensitivity == 150
\* friction 0.94, in percent
friction == 94
\* Math.max(16, now - this.lastTime)
MinDeltaTime == 16
\* Math.abs(this.velocity) > 0.0001
CoastThreshold == 100

Abs(x) == IF x < 0 THEN -x ELSE x

\* x * m / d, rounded toward zero, without leaving 32 bits
MulDiv(x, m, d) ==
    LET a == Abs(x)
        r == (a \div d) * m + ((a % d) * m) \div d
    IN  IF x < 0 THEN -r ELSE r

\* emitUpdate with the bridge's new yaw and pitch: the rotation goes to the
\* onUpdate callback of OrbitalMode.tsx, which calls updateFromRotor
emitUpdate(yaw, pitch, deltaTime) ==
    /\ updateFromRotor(fromYawPitch(yaw, (pitch * PiMilli) \div 180000), deltaTime)
    /\ calls' = calls + 1

\* a handler that returns without calling onUpdate
noUpdate == UNCHANGED <<currentYaw, currentPitch, velocity, calls>>

\* where the pointer can be, and how long after the last handler it moves
PointerDowns == {<<0, 300>>}
PointerMoves == {<<0, 300>>, <<100, 0>>, <<100, 300>>}
MoveTimes == {2400000}

HandlePointerDown(clientX, clientY) ==
    /\ listening
    /\ dragging' = TRUE
    /\ lastPointerX' = clientX
    /\ lastPointerY' = clientY
    /\ bridgeVelocity' = 0
    /\ lastCall' = <<"handlePointerDown">>
    /\ UNCHANGED <<bridgeYaw, bridgePitch, moves, listening, animateScheduled, detached>>
    /\ UNCHANGED <<gl, program, buffer, uniforms, supported, currentYaw, currentPitch,
                   velocity, renderMode, uploaded, canvasSize, calls>>
    /\ UNCHANGED <<frameMapVars, componentVars>>

\* the pitch of the bridge after a move by deltaY, without the clamp
movePitch_NoClamp(deltaY) == bridgePitch - deltaY * pitchSensitivity

\* the pitch of the bridge after a move by deltaY (line 76)
movePitch(deltaY) ==
    Min(30000, Max(0, bridgePitch - deltaY * pitchSensitivity))

HandlePointerMove(clientX, clientY, elapsed) ==
    /\ listening
    /\ IF ~dragging
       THEN UNCHANGED vars
       ELSE LET deltaX    == clientX - lastPointerX
                deltaY    == clientY - lastPointerY
                deltaTime == Max(MinDeltaTime, elapsed)
                yaw       == bridgeYaw + deltaX * yawSensitivity
                pitch     == movePitch(deltaY)
            IN  /\ moves < MaxMoves
                /\ moves' = moves + 1
                /\ bridgeYaw' = yaw
                /\ bridgePitch' = pitch
                /\ bridgeVelocity' = MulDiv(deltaX * yawSensitivity, 1000, deltaTime)
                /\ lastPointerX' = clientX
                /\ lastPointerY' = clientY
                /\ emitUpdate(yaw, pitch, deltaTime)
                /\ lastCall' = <<"updateFromRotor">>
                /\ UNCHANGED <<dragging, listening, animateScheduled, detached>>
                /\ UNCHANGED <<gl, program, buffer, uniforms, supported, renderMode,
                               uploaded, canvasSize>>
                /\ UNCHANGED <<frameMapVars, componentVars>>

HandlePointerUp ==
    /\ listening
    /\ IF ~dragging
       THEN UNCHANGED vars
       ELSE /\ dragging' = FALSE
            /\ lastCall' = <<"handlePointerUp">>
            /\ UNCHANGED <<bridgeYaw, bridgePitch, bridgeVelocity, lastPointerX,
                           lastPointerY, moves, listening, animateScheduled, detached>>
            /\ UNCHANGED <<gl, program, buffer, uniforms, supported, currentYaw,
                           currentPitch, velocity, renderMode, uploaded, canvasSize,
                           calls>>
            /\ UNCHANGED <<frameMapVars, componentVars>>

\* the velocity after a coast tick (line 104)
coastVelocity(v) == MulDiv(v, friction, 100)

\* animate that coasts whether or not the pointer is down
animate_IgnoresDragging(detaches) ==
    /\ animateScheduled
    /\ ~detaches
    /\ IF Abs(bridgeVelocity) > CoastThreshold
       THEN LET yaw == bridgeYaw + MulDiv(bridgeVelocity, MinDeltaTime, 1000)
            IN  /\ bridgeYaw' = yaw
                /\ bridgeVelocity' = coastVelocity(bridgeVelocity)
                /\ emitUpdate(yaw, bridgePitch, MinDeltaTime)
       ELSE UNCHANGED <<bridgeYaw, bridgeVelocity>> /\ noUpdate
    /\ UNCHANGED <<listening, detached, animateScheduled>>

\* animate of the bridge (lines 98-110), MinDeltaTime after the last handler
\* ran: what it writes in the bridge and, through emitUpdate, in the
\* visualizer.  detaches: the onUpdate callback calls detach() before it
\* returns; the frame detach() cancels is the one that is running, and line
\* 109 requests the next one after the callback has returned.
animate(detaches) ==
    /\ animateScheduled
    /\ IF ~dragging /\ Abs(bridgeVelocity) > CoastThreshold
       THEN LET yaw == bridgeYaw + MulDiv(bridgeVelocity, MinDeltaTime, 1000)
            IN  /\ bridgeYaw' = yaw
                /\ bridgeVelocity' = coastVelocity(bridgeVelocity)
                /\ emitUpdate(yaw, bridgePitch, MinDeltaTime)
                /\ listening' = (listening /\ ~detaches)
                /\ detached' = (detached \/ detaches)
       ELSE /\ ~detaches
            /\ UNCHANGED <<bridgeYaw, bridgeVelocity, listening, detached>>
            /\ noUpdate
    /\ animateScheduled' = TRUE

\* one animation frame: the browser runs the bridge's animate, registered
\* first, and then the loop of OrbitalMode.tsx, which calls render()
Frame ==
    /\ animate(FALSE)
    /\ UNCHANGED <<dragging, bridgePitch, lastPointerX, lastPointerY, moves>>
    /\ UNCHANGED <<gl, program, buffer, uniforms, supported, renderMode, canvasSize>>
    /\ uploaded' = IF gl = "none" \/ ~program \/ ~buffer \/ ~uniforms
                   THEN uploaded ELSE Uniforms'
    /\ lastCall' = <<"render">>
    /\ UNCHANGED <<frameMapVars, componentVars>>

\* toggleRenderMode of OrbitalMode.tsx: the other mode goes to setRenderMode
ToggleRenderMode ==
    SetRenderMode(IF renderMode = "orbital" THEN "turnstile" ELSE "orbital")

EngineInit ==
    /\ Constructed("WebGL2", TRUE, TRUE)
    /\ BridgeConstructed
    /\ ComponentInitial
    /\ yawDegrees = 0
    /\ blendFrames = NoResult
    /\ compass = NoLabel
    /\ shaderFrames = NoResult

EngineNext ==
    \/ \E at \in PointerDowns : HandlePointerDown(at[1], at[2])
    \/ \E to \in PointerMoves, elapsed \in MoveTimes :
          HandlePointerMove(to[1], to[2], elapsed)
    \/ HandlePointerUp
    \/ Frame
    \/ ToggleRenderMode

EngineSpec == EngineInit /\ [][EngineNext]_vars

(***************************************************************************)
(* The bridge with a client that may detach it (part_009, lines 39-55 and  *)
(* 98-110).                                                                *)
(***************************************************************************)
\* does the onUpdate callback of the tick call detach() before it returns
DetachChoices == BOOLEAN

\* detach() called between two callbacks: the listeners go and the pending
\* frame, the one frameId names, is cancelled
Detach ==
    /\ listening' = FALSE
    /\ animateScheduled' = FALSE
    /\ detached' = TRUE
    /\ lastCall' = <<"detach">>
    /\ UNCHANGED <<dragging, bridgeYaw, bridgePitch, bridgeVelocity, lastPointerX,
                   lastPointerY, moves>>
    /\ UNCHANGED <<gl, program, buffer, uniforms, supported, currentYaw, currentPitch,
                   velocity, renderMode, uploaded, canvasSize, calls>>
    /\ UNCHANGED <<frameMapVars, componentVars>>

\* one animation frame of the bridge alone
Tick(detaches) ==
    /\ animate(detaches)
    /\ lastCall' = <<"animate">>
    /\ UNCHANGED <<dragging, bridgePitch, lastPointerX, lastPointerY, moves>>
    /\ UNCHANGED <<gl, program, buffer, uniforms, supported, renderMode, uploaded,
                   canvasSize>>
    /\ UNCHANGED <<frameMapVars, componentVars>>

BridgeNext ==
    \/ \E at \in PointerDowns : HandlePointerDown(at[1], at[2])
    \/ \E to \in PointerMoves, elapsed \in MoveTimes :
          HandlePointerMove(to[1], to[2], elapsed)
    \/ HandlePointerUp
    \/ \E detaches \in DetachChoices : Tick(detaches)
    \/ Detach

BridgeSpec == EngineInit /\ [][BridgeNext]_vars

(***************************************************************************)
(* ui/orbital/OrbitalMode.tsx: the setup effect (lines 64-128) and the     *)
(* overlays (lines 350-359).  Every run of the effect starts one setup:    *)
(* two image loads, and the continuation after Promise.all.  A setup       *)
(* record keeps what that run owns: its isMounted flag, how far it got,    *)
(* and the visualizer, resize listener, bridge and frame loop it created.  *)
(***************************************************************************)
Rings == {"ring0", "ring1"}

\* a setup as the effect starts it: both loads pending, nothing created
NewSetup ==
    [ ring0      |-> "pending",   \* "pending" | "loaded" | "failed"
      ring1      |-> "pending",
      isMounted  |-> TRUE,
      phase      |-> "awaiting",  \* awaiting | rejected | returned | unsupported | running
      visualizer |-> "none",      \* none | supported | unsupported
      mode       |-> "orbital",   \* the renderMode of its visualizer
      resize     |-> FALSE,       \* its resize listener is on window
      bridge     |-> "none",      \* none | attached | detached
      loop       |-> "none" ]     \* none | requested | cancelled

\* the setup the mounted component is running the effect of
Current == Len(setups)

\* the overlays of lines 350-359
LoadingShown == mounted /\ ~isReady
ErrorShown == mounted /\ webglError

\* a cleanup that leaves the frame loop requested
cleanup_NoCancel(ss) ==
    LET unmounted == [ss EXCEPT ![Current].isMounted = FALSE]
    IN  IF bridgeRef # 0
        THEN [unmounted EXCEPT ![bridgeRef].bridge = "detached"]
        ELSE unmounted

\* the cleanup the effect returned (lines 120-127), applied to the setups
cleanup(ss) ==
    LET unmounted == [ss EXCEPT ![Current].isMounted = FALSE]
        cancelled == IF frameRef # 0 /\ unmounted[frameRef].loop = "requested"
                     THEN [unmounted EXCEPT ![frameRef].loop = "cancelled"]
                     ELSE unmounted
    IN  IF bridgeRef # 0
        THEN [cancelled EXCEPT ![bridgeRef].bridge = "detached"]
        ELSE cancelled

\* first render of the component: the effect runs and starts a setup
Mount ==
    /\ ~mounted
    /\ setups = << >>
    /\ mounted' = TRUE
    /\ setups' = Append(setups, NewSetup)
    /\ UNCHANGED <<debugMode, isReady, webglError, visualizerRef, bridgeRef, frameRef>>
    /\ UNCHANGED <<uiRenderMode, frameMapVars, visualizerVars, bridgeVars>>

\* the debug button: debugMode is a dependency of the effect, so the cleanup
\* of the running effect is called and the effect runs again
ToggleDebug ==
    /\ mounted
    /\ Len(setups) < MaxSetups
    /\ debugMode' = ~debugMode
    /\ setups' = Append(cleanup(setups), NewSetup)
    /\ bridgeRef' = 0
    /\ visualizerRef' = 0
    /\ UNCHANGED <<mounted, isReady, webglError, frameRef>>
    /\ UNCHANGED <<uiRenderMode, frameMapVars, visualizerVars, bridgeVars>>

\* the parent passes another atlas URL: assets is a dependency of the effect,
\* so the cleanup of the running effect is called and the effect runs again
ChangeAssets ==
    /\ mounted
    /\ Len(setups) < MaxSetups
    /\ setups' = Append(cleanup(setups), NewSetup)
    /\ bridgeRef' = 0
    /\ visualizerRef' = 0
    /\ UNCHANGED <<mounted, debugMode, isReady, webglError, frameRef>>
    /\ UNCHANGED <<uiRenderMode, frameMapVars, visualizerVars, bridgeVars>>

\* the mode button (lines 56-62): the state changes, and the visualizer
\* visualizerRef holds, if any, is told
toggleRenderMode ==
    /\ mounted
    /\ LET newMode == IF uiRenderMode = "orbital" THEN "turnstile" ELSE "orbital"
       IN  /\ uiRenderMode' = newMode
           /\ setups' = IF visualizerRef # 0
                         THEN [setups EXCEPT ![visualizerRef].mode = newMode]
                         ELSE setups
    /\ UNCHANGED <<mounted, debugMode, isReady, webglError, visualizerRef, bridgeRef,
                   frameRef>>
    /\ UNCHANGED <<frameMapVars, visualizerVars, bridgeVars>>

Unmount ==
    /\ mounted
    /\ mounted' = FALSE
    /\ setups' = cleanup(setups)
    /\ bridgeRef' = 0
    /\ visualizerRef' = 0
    /\ UNCHANGED <<debugMode, isReady, webglError, frameRef>>
    /\ UNCHANGED <<uiRenderMode, frameMapVars, visualizerVars, bridgeVars>>

\* the guard of line 71 that lets every setup through
proceeds_Always(s) == TRUE

\* line 71: if (!isMounted || !canvasRef.current) return
proceeds(s) == s.isMounted /\ mounted

\* setup g after "await Promise.all" (lines 71-110); s is its record with
\* both rings loaded, isSupported what the new visualizer will answer
resumeSetup(g, s, isSupported) ==
    IF ~proceeds(s)
    THEN /\ setups' = [setups EXCEPT ![g] = [s EXCEPT !.phase = "returned"]]
         /\ UNCHANGED <<isReady, webglError, visualizerRef, bridgeRef, frameRef>>
    ELSE IF ~isSupported
    THEN /\ setups' = [setups EXCEPT ![g] = [s EXCEPT !.phase = "unsupported",
                                                      !.visualizer = "unsupported"]]
         /\ visualizerRef' = g
         /\ webglError' = TRUE
         /\ UNCHANGED <<isReady, bridgeRef, frameRef>>
    ELSE /\ setups' = [setups EXCEPT ![g] = [s EXCEPT !.phase = "running",
                                                      !.visualizer = "supported",
                                                      !.resize = TRUE,
                                                      !.bridge = "attached",
                                                      !.loop = "requested"]]
         /\ visualizerRef' = g
         /\ bridgeRef' = g
         /\ frameRef' = g
         /\ isReady' = TRUE
         /\ UNCHANGED webglError

\* img.onload of one ring of setup g; the second one resolves Promise.all and
\* the continuation of setup runs before any other event
ImageLoaded(g, ring, isSupported) ==
    /\ g \in DOMAIN setups
    /\ setups[g][ring] = "pending"
    /\ LET s == [setups[g] EXCEPT ![ring] = "loaded"]
       IN  IF s.ring0 = "loaded" /\ s.ring1 = "loaded" /\ s.phase = "awaiting"
           THEN resumeSetup(g, s, isSupported)
           ELSE /\ setups' = [setups EXCEPT ![g] = s]
                /\ UNCHANGED <<isReady, webglError, visualizerRef, bridgeRef, frameRef>>
    /\ UNCHANGED <<mounted, debugMode>>
    /\ UNCHANGED <<uiRenderMode, frameMapVars, visualizerVars, bridgeVars>>

\* img.onerror of one ring of setup g: Promise.all rejects, and nothing
\* catches the rejection of setup()
ImageFailed(g, ring) ==
    /\ g \in DOMAIN setups
    /\ setups[g][ring] = "pending"
    /\ setups' = [setups EXCEPT ![g][ring] = "failed",
                                ![g].phase = IF @ = "awaiting" THEN "rejected" ELSE @]
    /\ UNCHANGED <<mounted, debugMode, isReady, webglError, visualizerRef, bridgeRef,
                   frameRef>>
    /\ UNCHANGED <<uiRenderMode, frameMapVars, visualizerVars, bridgeVars>>

\* one turn of the frame loop of setup g (lines 98-104): it renders and
\* requests the next frame
LoopFrame(g) ==
    /\ g \in DOMAIN setups
    /\ setups[g].loop = "requested"
    /\ frameRef' = g
    /\ UNCHANGED <<mounted, debugMode, isReady, webglError, setups, visualizerRef,
                   bridgeRef>>
    /\ UNCHANGED <<uiRenderMode, frameMapVars, visualizerVars, bridgeVars>>

ComponentInit ==
    /\ ComponentInitial
    /\ Constructed("WebGL2", TRUE, TRUE)
    /\ BridgeConstructed
    /\ yawDegrees = 0
    /\ blendFrames = NoResult
    /\ compass = NoLabel
    /\ shaderFrames = NoResult

ComponentNext ==
    \/ Mount
    \/ ToggleDebug
    \/ ChangeAssets
    \/ toggleRenderMode
    \/ Unmount
    \/ \E g \in 1..MaxSetups, ring \in Rings, isSupported \in BOOLEAN :
          ImageLoaded(g, ring, isSupported)
    \/ \E g \in 1..MaxSetups, ring \in Rings : ImageFailed(g, ring)
    \/ \E g \in 1..MaxSetups : LoopFrame(g)

ComponentSpec == ComponentInit /\ [][ComponentNext]_vars

(***************************************************************************)
(* Claims about the frame map (checked under FrameMapSpec).                *)
(***************************************************************************)
AngleIndices == 0..15
FrameIndices == 0..15

\* the mathematical remainder and quotient of a yaw by the 22.5 degree step
StepOf(y) == (y - (y % DEGREES_PER_FRAME)) \div DEGREES_PER_FRAME

\* C1: for every angle index k the shader's orbital lookup getOrbitalFrame(k)
\* equals ANGULAR_SEQUENCE[k], so for every yaw the shader (orbital mode) and
\* getBlendFrames select the same frameA and the same frameB.
C1_ShaderAgreesWithFrameMap ==
    (blendFrames # NoResult /\ shaderFrames # NoResult
        /\ shaderFrames.renderMode = "orbital")
    => /\ getOrbitalFrame(blendFrames.angleIndexA)
             = At(ANGULAR_SEQUENCE, blendFrames.angleIndexA)
       /\ getOrbitalFrame(blendFrames.angleIndexB)
             = At(ANGULAR_SEQUENCE, blendFrames.angleIndexB)
       /\ shaderFrames.frameA = blendFrames.frameA
       /\ shaderFrames.frameB = blendFrames.frameB

\* the sequence the specification standardizes on
StandardSequence == << 0, 9, 5, 13, 2, 14, 6, 10, 1, 11, 7, 15, 3, 12, 4, 8 >>

\* C2: getBlendFrames follows the standardized sequence: at 0 degrees it
\* returns (0, 9, blend 0), at 11.25 (0, 9, blend 0.5), at 337.5 (8, 0,
\* blend 0), at 350 (8, 0), and at 22.5*k the k-th entry of the sequence
\* and its successor.
C2_FollowsStandardSequence ==
    blendFrames # NoResult =>
        /\ yawDegrees = Deg(0) =>
              /\ blendFrames.frameA = 0
              /\ blendFrames.frameB = 9
              /\ blendFrames.blend = 0
        /\ 4 * yawDegrees = Deg(45) =>
              /\ blendFrames.frameA = 0
              /\ blendFrames.frameB = 9
              /\ 2 * blendFrames.blend = DEGREES_PER_FRAME
        /\ 2 * yawDegrees = Deg(675) =>
              /\ blendFrames.frameA = 8
              /\ blendFrames.frameB = 0
              /\ blendFrames.blend = 0
        /\ yawDegrees = Deg(350) =>
              /\ blendFrames.frameA = 8
              /\ blendFrames.frameB = 0
        /\ \A k \in AngleIndices :
              yawDegrees = k * DEGREES_PER_FRAME =>
                  /\ blendFrames.frameA = At(StandardSequence, k)
                  /\ blendFrames.frameB = At(StandardSequence, (k + 1) % 16)

\* C3: ANGULAR_SEQUENCE is a bijection on 0..15 and FRAME_TO_ANGLE_INDEX is
\* its inverse, on both sides; so the frame getBlendFrames returns leads
\* back to the angle index it was looked up at.
C3_InversePermutation ==
    /\ Len(ANGULAR_SEQUENCE) = 16
    /\ \A f \in FrameIndices :
          Cardinality({i \in AngleIndices : At(ANGULAR_SEQUENCE, i) = f}) = 1
    /\ \A i \in AngleIndices : FRAME_TO_ANGLE_INDEX[At(ANGULAR_SEQUENCE, i)] = i
    /\ \A f \in FrameIndices :
          /\ FRAME_TO_ANGLE_INDEX[f] \in AngleIndices
          /\ At(ANGULAR_SEQUENCE, FRAME_TO_ANGLE_INDEX[f]) = f
    /\ blendFrames # NoResult =>
          /\ FRAME_TO_ANGLE_INDEX[blendFrames.frameA] = blendFrames.angleIndexA
          /\ FRAME_TO_ANGLE_INDEX[blendFrames.frameB] = blendFrames.angleIndexB

C3_Witness ==
    /\ blendFrames # NoResult
    /\ blendFrames.angleIndexA = 5
    /\ blendFrames.frameA = 9
    /\ FRAME_TO_ANGLE_INDEX[9] = 5

\* C4: for every yaw, negative ones and ones of 360 or more included,
\* getBlendFrames returns frames and angle indices in 0..15 and a blend
\* with 0 <= blend < 1.
C4_ResultInRange ==
    blendFrames # NoResult =>
        /\ blendFrames.frameA \in FrameIndices
        /\ blendFrames.frameB \in FrameIndices
        /\ blendFrames.angleIndexA \in AngleIndices
        /\ blendFrames.angleIndexB \in AngleIndices
        /\ 0 <= blendFrames.blend
        /\ blendFrames.blend < DEGREES_PER_FRAME

C4_Witness ==
    /\ blendFrames # NoResult
    /\ yawDegrees < -FullCircle
    /\ blendFrames.blend > 0

C4_WitnessAbove ==
    /\ blendFrames # NoResult
    /\ yawDegrees >= FullCircle

\* C5: for every integer k, negative ones included, getBlendFrames(22.5*k)
\* returns blend 0, frameA = ANGULAR_SEQUENCE[k mod 16] and
\* frameB = ANGULAR_SEQUENCE[(k+1) mod 16], mod the non-negative remainder.
C5_ExactAtSteps ==
    (blendFrames # NoResult /\ yawDegrees % DEGREES_PER_FRAME = 0)
    => LET k == StepOf(yawDegrees)
       IN  /\ blendFrames.blend = 0
           /\ blendFrames.frameA = At(ANGULAR_SEQUENCE, k % 16)
           /\ blendFrames.frameB = At(ANGULAR_SEQUENCE, (k + 1) % 16)

C5_Witness ==
    /\ blendFrames # NoResult
    /\ yawDegrees = (-17) * DEGREES_PER_FRAME
    /\ blendFrames.frameA = At(ANGULAR_SEQUENCE, 15)
    /\ blendFrames.frameB = At(ANGULAR_SEQUENCE, 0)

\* C6: getBlendFrames has period 360 degrees: getBlendFrames(y + 360*n)
\* equals getBlendFrames(y) in every field, for every yaw y and integer n;
\* getBlendFrames(360) = getBlendFrames(0), getBlendFrames(-22.5) =
\* getBlendFrames(337.5).
C6_Periodic ==
    /\ blendFrames # NoResult =>
          \A n \in (-MaxTurns)..MaxTurns :
              getBlendFrames(yawDegrees + n * FullCircle) = blendFrames
    /\ (blendFrames # NoResult /\ yawDegrees = Deg(360)) =>
          blendFrames = [frameA |-> At(ANGULAR_SEQUENCE, 0),
                         frameB |-> At(ANGULAR_SEQUENCE, 1),
                         blend |-> 0, angleIndexA |-> 0, angleIndexB |-> 1]
    /\ (blendFrames # NoResult /\ yawDegrees = -DEGREES_PER_FRAME) =>
          blendFrames = [frameA |-> At(ANGULAR_SEQUENCE, 15),
                         frameB |-> At(ANGULAR_SEQUENCE, 0),
                         blend |-> 0, angleIndexA |-> 15, angleIndexB |-> 0]

C6_Witness ==
    /\ blendFrames # NoResult
    /\ yawDegrees = -DEGREES_PER_FRAME
    /\ blendFrames = getBlendFrames(15 * DEGREES_PER_FRAME)

\* C7: storage table and traversal table are in lock-step: the grid entry
\* whose frameIndex is ANGULAR_SEQUENCE[k] has angle 22.5*k and direction
\* ANGULAR_LABELS[k]; frameToAngle(ANGULAR_SEQUENCE[k]) = 22.5*k, so the
\* sequence visits the frames in strictly increasing angle.
GridEntry(frameIndex) ==
    CHOOSE e \in {QUADRANT_GRID[i] : i \in 1..Len(QUADRANT_GRID)} :
        e.frameIndex = frameIndex

C7_LockStep ==
    /\ \A k \in AngleIndices :
          LET f == At(ANGULAR_SEQUENCE, k)
          IN  /\ \E i \in 1..Len(QUADRANT_GRID) : QUADRANT_GRID[i].frameIndex = f
              /\ GridEntry(f).angle = k * DEGREES_PER_FRAME
              /\ GridEntry(f).direction = At(ANGULAR_LABELS, k)
              /\ frameToAngle(f) = k * DEGREES_PER_FRAME
    /\ \A k \in 0..14 :
          frameToAngle(At(ANGULAR_SEQUENCE, k)) < frameToAngle(At(ANGULAR_SEQUENCE, k + 1))
    /\ blendFrames # NoResult =>
          /\ frameToAngle(blendFrames.frameA) = blendFrames.angleIndexA * DEGREES_PER_FRAME
          /\ frameToAngle(blendFrames.frameA) + blendFrames.blend
                = yawDegrees % FullCircle

C7_Witness ==
    /\ blendFrames # NoResult
    /\ blendFrames.frameA = 13
    /\ frameToAngle(13) = 7 * DEGREES_PER_FRAME
    /\ blendFrames.blend > 0

\* C8: getCompassDirection returns the label of the 22.5 degree step
\* circularly nearest to the yaw, an exact half-way tie going to the higher
\* step; yaws in [348.75, 360) give "N"; getCompassDirection(22) is "NNE".
LabelIndex(label) == CHOOSE i \in AngleIndices : At(ANGULAR_LABELS, i) = label

C8_NearestLabel ==
    compass # NoLabel =>
        /\ \E i \in AngleIndices : At(ANGULAR_LABELS, i) = compass
        /\ LET yawN  == yawDegrees % FullCircle
               i     == LabelIndex(compass)
               up    == (i * DEGREES_PER_FRAME - yawN) % FullCircle
               down  == (yawN - i * DEGREES_PER_FRAME) % FullCircle
           IN  \/ 2 * up <= DEGREES_PER_FRAME
               \/ 2 * down < DEGREES_PER_FRAME
        /\ (4 * (yawDegrees % FullCircle) >= Deg(1395)) => compass = "N"
        /\ yawDegrees = Deg(22) => compass = "NNE"

C8_Witness ==
    /\ compass = "N"
    /\ 4 * yawDegrees = Deg(-45)

C8_WitnessTie ==
    /\ compass = "NNE"
    /\ 4 * yawDegrees = Deg(45)

(***************************************************************************)
(* Claims about the visualizer (checked under Spec).                       *)
(***************************************************************************)
\* C9: while the render mode is turnstile the pitch is exactly 0 in every
\* reachable state: right after setRenderMode('turnstile') and after every
\* later updateFromRotor, whatever pitch was reached before and whatever
\* rotation the update carries.
C9_TurnstilePitchZero ==
    renderMode = "turnstile" => currentPitch = 0

\* a turnstile update after a positive pitch had been drawn in orbital mode
C9_Witness ==
    /\ renderMode = "turnstile"
    /\ lastCall = <<"updateFromRotor">>
    /\ uploaded # NoResult
    /\ uploaded.pitch > 0
    /\ uploaded.renderMode = 0
    /\ currentPitch = 0

\* C10 as stated: every call of setRenderMode leaves the pitch at 0,
\* whichever mode is passed and whichever mode was active before.
C10_EveryCallResetsPitch ==
    lastCall[1] = "setRenderMode" => currentPitch = 0

\* C10 as amended: a call of setRenderMode that passes turnstile, or that
\* changes the render mode, leaves the pitch at 0; setRenderMode('orbital')
\* on a visualizer already in orbital mode leaves the pitch as it was.
C10_SwitchResetsPitch ==
    [][ /\ (lastCall' = <<"setRenderMode", "turnstile">>) => currentPitch' = 0
        /\ (renderMode' # renderMode) => currentPitch' = 0
        /\ (lastCall' = <<"setRenderMode", "orbital">> /\ lastCall' # lastCall
               /\ renderMode = "orbital") => currentPitch' = currentPitch
      ]_vars

\* setRenderMode('turnstile') called on a tilted orbital view
C10_Witness ==
    /\ lastCall = <<"setRenderMode", "turnstile">>
    /\ uploaded # NoResult
    /\ uploaded.pitch > 0
    /\ uploaded.renderMode = 0
    /\ currentPitch = 0

(***************************************************************************)
(* Claims about the shader's turnstile branch (checked under FrameMapSpec). *)
(***************************************************************************)
TurnstileIndices == 0..7

C14_YawInTurn == 0 <= currentYaw /\ currentYaw < FullTurn

\* an update whose y-energy was negative has carried the yaw below 0 and the
\* wrap has brought it back under the full turn
C14_Witness ==
    /\ lastCall = <<"updateFromRotor">>
    /\ currentYaw > FullTurn \div 2
    /\ calls = 1

\* C15: the velocity stays in [-3, 3] after every update, whatever the rotation
\* and the time step (zero and negative steps included), and the velocity
\* render() uploads is in [-3, 3] as well.
C15_VelocityClamped ==
    /\ velocity \in -3000..3000
    /\ uploaded # NoResult => uploaded.velocity \in -3000..3000

\* the smoothed value exceeded 3 and was clamped, then drawn
C15_Witness ==
    /\ lastCall = <<"render">>
    /\ velocity = 3000
    /\ uploaded # NoResult
    /\ uploaded.velocity = 3000

\* C16: a visualizer that got no WebGL context, or whose program failed to
\* link, is unsupported in every state of its life and no render() of it ever
\* reaches the GPU.
C16_UnsupportedNeverDraws ==
    (gl = "none" \/ ~program) => (~supported /\ uploaded = NoResult)

\* render() has been called on a visualizer whose program did not link
C16_Witness ==
    /\ gl # "none"
    /\ ~program
    /\ lastCall = <<"render">>
    /\ calls > 0

\* C17: the render mode starts as orbital and only setRenderMode changes it;
\* render(), setSize() and getDebugInfo() change none of yaw, pitch, velocity
\* and render mode; every render() of a working visualizer uploads exactly
\* the stored state, so two render() calls in a row upload the same uniforms.
C17_OnlySettersWrite ==
    /\ renderMode = "orbital"
    /\ [][ /\ renderMode' # renderMode => lastCall'[1] = "setRenderMode"
           /\ lastCall'[1] \in {"render", "setSize", "getDebugInfo"} =>
                 UNCHANGED <<currentYaw, currentPitch, velocity, renderMode>>
           /\ (lastCall'[1] = "render" /\ uploaded' # NoResult) =>
                 uploaded' = Uniforms
           /\ (lastCall'[1] = "render" /\ lastCall[1] = "render") =>
                 uploaded' = uploaded ]_vars

\* a second render() in a row, in turnstile mode, after an update moved the yaw
C17_Witness ==
    /\ lastCall = <<"render">>
    /\ uploaded # NoResult
    /\ uploaded.renderMode = 1
    /\ uploaded.yaw # 0
    /\ canvasSize # DefaultCanvasSize

\* C21: in turnstile mode the frame selected for angle index k in 0..7 is the
\* QUADRANT_GRID frame whose angle is 45*k degrees (N, NE, E, SE, S, SW, W, NW
\* in that order), so the frameA the turnstile branch selects for a yaw is the
\* grid frame of the 45 degree step at or below that yaw.
C21_TurnstileFollowsGridAngles ==
    /\ \A k \in TurnstileIndices : GridEntry(getTurnstileFrame(k)).angle = Deg(45 * k)
    /\ (shaderFrames # NoResult /\ shaderFrames.renderMode = "turnstile") =>
          LET yawN == yawDegrees % FullCircle
          IN  GridEntry(shaderFrames.frameA).angle = yawN - (yawN % Deg(45))

\* C30: the compass label names one of the two blended frames: for every yaw
\* getCompassDirection(yaw) is the QUADRANT_GRID direction of frameA of
\* getBlendFrames(yaw) when blend < 0.5 and of frameB when blend >= 0.5.
C30_CompassNamesBlendedFrame ==
    (blendFrames # NoResult /\ compass # NoLabel) =>
        compass = GridEntry(IF 2 * blendFrames.blend < DEGREES_PER_FRAME
                            THEN blendFrames.frameA
                            ELSE blendFrames.frameB).direction

\* 348.75 degrees: the blend is exactly 0.5 and frameB wraps to frame 0
C30_Witness ==
    /\ yawDegrees = Deg(349) - 1
    /\ blendFrames # NoResult
    /\ 2 * blendFrames.blend = DEGREES_PER_FRAME
    /\ blendFrames.frameB = 0
    /\ compass = "N"

\* C25: if isSupported() is true then render() draws: the vertex buffer and
\* the uniform locations exist, and a render() call never returns without
\* having uploaded the uniforms and drawn.
C25_SupportedMeansDraws ==
    supported =>
        /\ buffer
        /\ uniforms
        /\ lastCall = <<"render">> => uploaded # NoResult

\* the frames the fragment shader selects for the stored yaw and render mode
RenderedFrames == mainFrames(YawDeg, IF renderMode = "orbital" THEN 0 ELSE 1)

\* C29: in turnstile mode the frameA and frameB that getDebugInfo() reports
\* are the frames the render path selects for the current yaw: they lie in
\* grid rows 0 and 1 (frame index below 8) and are those of the shader's
\* turnstile branch, which change once per 45 degrees of yaw.
C29_DebugFramesAreRenderedFrames ==
    (lastCall = <<"getDebugInfo">> /\ renderMode = "turnstile") =>
        /\ getDebugInfo.frameA \in 0..7
        /\ getDebugInfo.frameB \in 0..7
        /\ getDebugInfo.frameA = RenderedFrames.frameA
        /\ getDebugInfo.frameB = RenderedFrames.frameB

(***************************************************************************)
(* Claims about the bridge driving the visualizer (checked under           *)
(* EngineSpec).                                                            *)
(***************************************************************************)
\* a pointer move of the running drag that changes the vertical position
VerticalDrag == dragging /\ dragging' /\ lastPointerY' # lastPointerY

\* C11: pitch advances only in orbital mode: a vertical drag in turnstile
\* mode changes neither the bridge's pitch nor the visualizer's, so the
\* visualizer's pitch leaves 0 only by a vertical drag made in orbital mode.
C11_PitchOnlyInOrbital ==
    [][ /\ (renderMode = "turnstile" /\ VerticalDrag) =>
              (bridgePitch' = bridgePitch /\ currentPitch' = currentPitch)
        /\ (currentPitch = 0 /\ currentPitch' # 0) =>
              (renderMode = "orbital" /\ VerticalDrag) ]_vars

\* C12: the pitch stays in [0, 30] degrees in every reachable state, the
\* bridge's pitch and the visualizer's pitch alike.
C12_PitchInRange ==
    /\ bridgePitch \in 0..30000
    /\ currentPitch \in 0..30000

\* a drag of 300 pixels upward asked for 45 degrees; the bridge stopped at 30
\* and the updates of the coast carried the visualizer to its own limit
C12_Witness ==
    /\ moves > 0
    /\ bridgePitch = 30000
    /\ currentPitch = 30000
    /\ renderMode = "orbital"

\* C13: while the bridge coasts (animation frames, no pointer down) the
\* magnitude of its velocity never grows, and once the coast has ended (the
\* tick leaves the velocity alone) the velocity is exactly 0.
C13_CoastDecaysToZero ==
    /\ [][ (~dragging /\ ~dragging') =>
              Abs(bridgeVelocity') <= Abs(bridgeVelocity) ]_vars
    /\ []((~dragging /\ Abs(bridgeVelocity) <= CoastThreshold) => bridgeVelocity = 0)

\* an animation frame of the bridge has run
Ticked == lastCall' = <<"animate">>

\* C22: coasting happens only while no pointer is down: a tick of a dragging
\* bridge changes neither yaw nor velocity and emits no update; a tick
\* advances the yaw by velocity*dt, multiplies the velocity by the friction
\* and emits exactly one update exactly when the bridge is not dragging and
\* the magnitude of its velocity is above the stop threshold.
C22_CoastOnlyWhenReleased ==
    [][ Ticked =>
          IF ~dragging /\ Abs(bridgeVelocity) > CoastThreshold
          THEN /\ bridgeYaw' = bridgeYaw + MulDiv(bridgeVelocity, MinDeltaTime, 1000)
               /\ bridgeVelocity' = MulDiv(bridgeVelocity, friction, 100)
               /\ calls' = calls + 1
          ELSE /\ bridgeYaw' = bridgeYaw
               /\ bridgeVelocity' = bridgeVelocity
               /\ calls' = calls
               /\ currentYaw' = currentYaw ]_vars

\* a tick has run during a drag whose last move left a velocity above the
\* threshold
C22_Witness ==
    /\ dragging
    /\ Abs(bridgeVelocity) > CoastThreshold
    /\ lastCall = <<"animate">>

\* C24: a pointer move of a drag that does not change the horizontal position
\* leaves the visualizer's yaw as it was, whatever yaw the bridge holds.
C24_ZeroMoveKeepsYaw ==
    [][ (dragging /\ moves' = moves + 1 /\ lastPointerX' = lastPointerX) =>
            currentYaw' = currentYaw ]_vars

\* C28: once detach() has returned, also when the onUpdate callback of a
\* coasting tick called it, no animation frame of the bridge is scheduled and
\* onUpdate is not invoked again.
C28_DetachStopsBridge ==
    /\ [](detached => ~animateScheduled)
    /\ [][detached => calls' = calls]_vars

(***************************************************************************)
(* Claims about the OrbitalMode component (checked under ComponentSpec).   *)
(***************************************************************************)
\* setup g has lost an image
LoadFailed(g) == setups[g].ring0 = "failed" \/ setups[g].ring1 = "failed"

\* C18: when an atlas image of the running setup fails to load, the component
\* leaves 'Loading Orbital Rings...' and shows an error.
C18_FailedLoadShowsError ==
    (mounted /\ Current > 0 /\ LoadFailed(Current)) => (~LoadingShown /\ ErrorShown)

\* setup g has created a visualizer, a bridge or a frame loop
Initialized(s) == s.visualizer # "none" \/ s.bridge # "none" \/ s.loop # "none" \/ s.resize

\* C19: a setup creates its visualizer, bridge and frame loop only once both
\* images are loaded; a setup that lost an image, or whose effect was cleaned
\* up before both loads completed, never creates any of them.
C19_InitializedAfterBothLoads ==
    /\ [](\A g \in DOMAIN setups :
            Initialized(setups[g]) =>
                (setups[g].ring0 = "loaded" /\ setups[g].ring1 = "loaded"))
    /\ [][\A g \in DOMAIN setups :
            /\ setups'[g].isMounted => setups[g].isMounted
            /\ (Initialized(setups'[g]) /\ ~Initialized(setups[g])) =>
                  (setups[g].isMounted /\ mounted)]_vars

\* the first setup was cleaned up while it waited, its images arrived later
\* and it created nothing; the second setup runs with everything created
C19_Witness ==
    /\ Len(setups) = 2
    /\ setups[1].phase = "returned"
    /\ ~Initialized(setups[1])
    /\ setups[2].phase = "running"
    /\ frameRef = 2

\* C23: whenever visualizerRef holds a visualizer, the renderMode state that
\* labels the mode button equals that visualizer's render mode.
C23_ButtonShowsVisualizerMode ==
    visualizerRef # 0 => setups[visualizerRef].mode = uiRenderMode

\* setup g was cleaned up: its effect was re-run or the component unmounted
CleanedUp(g) == ~setups[g].isMounted

\* C26: after the cleanup of a setup nothing it installed is still
\* registered: its frame loop is not requested, its bridge is not attached
\* (pointer listeners and the bridge's frame) and its resize listener is gone.
C26_CleanupRemovesEverything ==
    \A g \in DOMAIN setups :
        CleanedUp(g) => /\ setups[g].loop # "requested"
                        /\ setups[g].bridge # "attached"
                        /\ ~setups[g].resize

\* the setups whose frame loop is requested, and those whose bridge is attached
Loops == {g \in DOMAIN setups : setups[g].loop = "requested"}
Bridges == {g \in DOMAIN setups : setups[g].bridge = "attached"}

\* C27: at most one frame loop is requested and at most one bridge is
\* attached at any time, and a setup that was cleaned up never starts a loop
\* or attaches a bridge afterwards.
C27_OneLoopOneBridge ==
    /\ [](Cardinality(Loops) <= 1 /\ Cardinality(Bridges) <= 1)
    /\ [][ \A g \in DOMAIN setups :
              CleanedUp(g) =>
                  /\ setups'[g].loop = "requested" => setups[g].loop = "requested"
                  /\ setups'[g].bridge = "attached" => setups[g].bridge = "attached" ]_vars

\* the first setup was cleaned up while its images loaded and returned at
\* line 71 when they arrived; the second one runs the loop and the bridge
C27_Witness ==
    /\ Len(setups) = 2
    /\ setups[1].phase = "returned"
    /\ Loops = {2}
    /\ Bridges = {2}

====
